---- MODULE Spec2Model ----
(***************************************************************************)
(* Immich integration for Home Assistant: the API hub (hub.py) and the     *)
(* polling image entities (image.py).                                      *)
(*                                                                         *)
(* Python values are encoded as follows.                                   *)
(*   Optional[T]   None is <<>>, a value v is <<v>>                        *)
(*   dict          a function whose DOMAIN is the set of keys present      *)
(*   list          a sequence                                              *)
(*   JSON value    of varying type: [null |-> TRUE], [list |-> s],         *)
(*                 [dict |-> d]                                            *)
(*   str that is lower-cased by the code: a sequence of code points        *)
(*   bytes         <<>> when empty, <<id>> for the content of asset id     *)
(*   datetime      a number of hours                                       *)
(***************************************************************************)
EXTENDS Integers, Sequences, FiniteSets, TLC

VARIABLES
    hub_op,         \* hub operation under call (hub specification)
    hub_transport,  \* what the transport does during that call
    hub_outcome,    \* None before the call, Some(outcome) after it
    kind,           \* class of the image entity: "favorite", "album", "search"
    calls,          \* the update calls the host may have in flight
    now,            \* datetime.now(), in hours
    server_download,            \* per asset ID, how its download behaves
    cached_available_asset_ids, \* Optional[list[str]]
    available_asset_ids_last_updated, \* Optional[datetime]
    current_image_bytes,        \* Optional[bytes]
    attr_extra_state_attributes, \* dict
    attr_image_last_updated,    \* Optional[datetime]
    pc,             \* per call: where _load_and_cache_next_image stands
    asset_id,       \* per call: Optional[str], local of the update loop
    asset_bytes,    \* per call: Optional[bytes], local of the update loop
    asset_info,     \* per call: Optional[dict], local of the update loop
    exc,            \* per call: Optional exception the call raised
    notified,       \* per call: async_write_ha_state calls made by the call
    before,         \* per call: the displayed image when the call started
    attempts,       \* per call: download attempts made, counted up to MaxAttempts
    sleep_seconds,  \* per call: the delay of the asyncio.sleep under way, else 0
    sub_payloads,   \* per call: payloads of the sub-searches issued
    sub_results,    \* per call: Optional result of each sub-search
    entry,          \* per call: the method the host called, "update" or "image"
    image_result    \* per call: None, or Some(what async_image returned)

hub_vars == <<hub_op, hub_transport, hub_outcome>>
cache_vars == <<cached_available_asset_ids, available_asset_ids_last_updated>>
displayed_vars ==
    <<current_image_bytes, attr_extra_state_attributes, attr_image_last_updated>>
env_vars == <<kind, calls, server_download>>
gather_vars == <<sub_payloads, sub_results>>
local_vars == <<asset_id, asset_bytes, asset_info>>
history_vars == <<attempts, sleep_seconds>>
request_vars == <<entry, image_result>>
entity_vars ==
    <<env_vars, now, cache_vars, displayed_vars, pc, local_vars, exc, notified,
      before, history_vars, gather_vars, request_vars>>
vars == <<hub_vars, entity_vars>>

---------------------------------------------------------------------------
(* Python values *)

None == <<>>
Some(v) == <<v>>

\* The outcome of a call: a returned value or a raised exception.
Return(v) == [kind |-> "return", value |-> v]
Raise(e) == [kind |-> "raise", exc |-> e]

JNull == [null |-> TRUE]
JList(s) == [list |-> s]
JDict(d) == [dict |-> d]
IsList(j) == "list" \in DOMAIN j
IsDict(j) == "dict" \in DOMAIN j
IsNull(j) == "null" \in DOMAIN j

EmptyDict == [k \in {} |-> TRUE]

\* {**d1, **d2}
DictMerge(d1, d2) ==
    [k \in (DOMAIN d1) \cup (DOMAIN d2) |-> IF k \in DOMAIN d2 THEN d2[k] ELSE d1[k]]

\* {k: v for k, v in d.items() if k != key}
DictWithout(d, key) == [k \in (DOMAIN d) \ {key} |-> d[k]]

\* str.lower() on a code point and on a string of code points
LowerChar(c) == IF c >= 65 /\ c <= 90 THEN c + 32 ELSE c
Lower(s) == [i \in 1..Len(s) |-> LowerChar(s[i])]

Str_empty == <<>>
Str_image_jpeg == <<105, 109, 97, 103, 101, 47, 106, 112, 101, 103>>
Str_image_jpg == <<105, 109, 97, 103, 101, 47, 106, 112, 103>>
Str_image_png == <<105, 109, 97, 103, 101, 47, 112, 110, 103>>
Str_image_webp == <<105, 109, 97, 103, 101, 47, 119, 101, 98, 112>>
Str_image_heic == <<105, 109, 97, 103, 101, 47, 104, 101, 105, 99>>
Str_image_heif == <<105, 109, 97, 103, 101, 47, 104, 101, 105, 102>>
Str_IMAGE_PNG == <<73, 77, 65, 71, 69, 47, 80, 78, 71>>
Str_Image_HEIC == <<73, 109, 97, 103, 101, 47, 72, 69, 73, 67>>
Str_video_mp4 == <<118, 105, 100, 101, 111, 47, 109, 112, 52>>
Str_text_plain == <<116, 101, 120, 116, 47, 112, 108, 97, 105, 110>>

\* [a["id"] for a in assets]
IdsOf(assets) == [i \in 1..Len(assets) |-> assets[i].id]

---------------------------------------------------------------------------
(* hub.py: the transport *)

\* aiohttp raises aiohttp.ClientError while the request is made or read
Fault == [fault |-> TRUE]
\* a response arrived
Response(status, content_type, body) ==
    [fault |-> FALSE, status |-> status, content_type |-> content_type, body |-> body]

ALLOWED_MIME_TYPES == {"image/png", "image/jpeg"}

---------------------------------------------------------------------------
(* hub.py: the operations of ImmichHub, each applied to what the transport *)
(* did during the call                                                     *)

\* authenticate that treats an error status as the other operations do
authenticate_raises_on_status(t) ==
    IF t.fault THEN Raise("CannotConnect")
    ELSE IF t.status # 200 THEN Raise("ApiError")
    ELSE IF ~("authStatus" \in DOMAIN t.body /\ t.body.authStatus) THEN Return(FALSE)
    ELSE Return(TRUE)

authenticate(t) ==
    IF t.fault THEN Raise("CannotConnect")
    ELSE IF t.status # 200 THEN Return(FALSE)
    ELSE IF ~("authStatus" \in DOMAIN t.body /\ t.body.authStatus) THEN Return(FALSE)
    ELSE Return(TRUE)

get_my_user_info(t) ==
    IF t.fault THEN Raise("CannotConnect")
    ELSE IF t.status # 200 THEN Raise("ApiError")
    ELSE Return(t.body)

get_asset_info(t) ==
    IF t.fault THEN Raise("CannotConnect")
    ELSE IF t.status # 200 THEN Raise("ApiError")
    ELSE Return(t.body)

\* download_asset without the check of the content type
download_asset_any_content_type(t) ==
    IF t.fault THEN Raise("CannotConnect")
    ELSE IF t.status # 200 THEN Return(None)
    ELSE Return(Some(t.body))

download_asset(t) ==
    IF t.fault THEN Raise("CannotConnect")
    ELSE IF t.status # 200 THEN Return(None)
    ELSE IF t.content_type \notin ALLOWED_MIME_TYPES THEN Return(None)
    ELSE Return(Some(t.body))

\* asset["type"] == "IMAGE" over a list: KeyError when an entry has no type
TypeFilter(assets) ==
    IF \E i \in 1..Len(assets) : "type" \notin DOMAIN assets[i]
    THEN Raise("KeyError")
    ELSE Return(SelectSeq(assets, LAMBDA a : a.type = "IMAGE"))

list_favorite_images(t) ==
    IF t.fault THEN Raise("CannotConnect")
    ELSE IF t.status # 200 THEN Raise("ApiError")
    ELSE TypeFilter(t.body.assets.items)

list_all_albums(t) ==
    IF t.fault THEN Raise("CannotConnect")
    ELSE IF t.status # 200 THEN Raise("ApiError")
    ELSE Return(t.body)

list_album_images(t) ==
    IF t.fault THEN Raise("CannotConnect")
    ELSE IF t.status # 200 THEN Raise("ApiError")
    ELSE TypeFilter(t.body.assets)

\* search_images: the extended allow-list
search_allowed ==
    {Str_image_jpeg, Str_image_jpg, Str_image_png, Str_image_webp,
     Str_image_heic, Str_image_heif}

\* mtype without .lower()
mtype_case_sensitive(asset) ==
    IF "originalMimeType" \in DOMAIN asset THEN asset.originalMimeType
    ELSE IF "mimeType" \in DOMAIN asset THEN asset.mimeType
    ELSE Str_empty

\* asset.get("originalMimeType", asset.get("mimeType", "")).lower()
mtype(asset) ==
    Lower(IF "originalMimeType" \in DOMAIN asset THEN asset.originalMimeType
          ELSE IF "mimeType" \in DOMAIN asset THEN asset.mimeType
          ELSE Str_empty)

\* a.get("type") == "IMAGE" and _mtype(a) in allowed
search_keep(a) ==
    /\ "type" \in DOMAIN a
    /\ a.type = "IMAGE"
    /\ mtype(a) \in search_allowed

\* the tolerant extractor: Some(the value bound to assets), or None when the
\* function returns [] for an unexpected response
search_extract(data) ==
    IF "items" \in DOMAIN data /\ IsList(data.items) THEN Some(data.items)
    ELSE IF "assets" \in DOMAIN data /\ IsDict(data.assets)
    THEN Some(IF "items" \in DOMAIN data.assets.dict THEN data.assets.dict.items
              ELSE JList(<<>>))
    ELSE None

\* the final comprehension iterates over whatever the extractor bound: a
\* list is filtered, null is not iterable (TypeError), an empty dict yields
\* nothing
search_comprehension(assets) ==
    IF IsList(assets) THEN Return(SelectSeq(assets.list, search_keep))
    ELSE IF IsNull(assets) THEN Raise("TypeError")
    ELSE Return(<<>>)

\* no try/except surrounds the request: aiohttp.ClientError is not converted
search_images(t) ==
    IF t.fault THEN Raise("ClientError")
    ELSE IF t.status # 200 THEN Raise("ApiError")
    ELSE IF search_extract(t.body) = None THEN Return(<<>>)
    ELSE search_comprehension(search_extract(t.body)[1])

---------------------------------------------------------------------------
(* The hub called once: the operation and what the transport does are      *)
(* drawn from bounded sets, the call applies the operation.                *)

\* longest asset list a response carries
MaxAssets == 2

SeqsUpTo(S, n) == UNION {[1..k -> S] : k \in 0..n}

HubOps ==
    {"authenticate", "get_my_user_info", "get_asset_info", "download_asset",
     "list_favorite_images", "search_images", "list_all_albums",
     "list_album_images"}

\* entries of a search response: type, originalMimeType and mimeType each
\* present or absent
SearchAssets ==
    {DictMerge(DictMerge([id |-> "x"], a), DictMerge(b, c)) :
        a \in {EmptyDict, [type |-> "IMAGE"], [type |-> "VIDEO"]},
        b \in {EmptyDict} \cup {[originalMimeType |-> m] :
                 m \in {Str_IMAGE_PNG, Str_video_mp4}},
        c \in {EmptyDict} \cup {[mimeType |-> m] : m \in {Str_Image_HEIC, Str_text_plain}}}

\* bodies of a 200 search response: the two recognized shapes, both at
\* once, and shapes that are neither
SearchBodies ==
    {[items |-> JList(l)] : l \in SeqsUpTo(SearchAssets, MaxAssets)}
    \cup {[assets |-> JDict([items |-> JList(l)])] : l \in SeqsUpTo(SearchAssets, MaxAssets)}
    \cup {[items |-> JList(l), assets |-> JDict([items |-> JList(m)])] :
            l \in SeqsUpTo(SearchAssets, 1), m \in SeqsUpTo(SearchAssets, 1)}
    \cup {[items |-> JNull, assets |-> JDict([items |-> JList(l)])] :
            l \in SeqsUpTo(SearchAssets, 1)}
    \cup {[assets |-> JList(l)] : l \in SeqsUpTo(SearchAssets, 1)}
    \cup {[assets |-> JDict(EmptyDict)], [assets |-> JDict([items |-> JNull])],
          [assets |-> JDict([items |-> JDict(EmptyDict)])],
          [assets |-> JNull], [items |-> JNull], [items |-> JDict(EmptyDict)],
          EmptyDict, [total |-> JNull]}

\* entries of a favorites or album listing
ListedAssets ==
    {[id |-> "x", type |-> "IMAGE"], [id |-> "y", type |-> "IMAGE"],
     [id |-> "v", type |-> "VIDEO"], [id |-> "n"]}

\* asset infos of asset id: every field set, some absent, all empty, none
AssetInfos(id) ==
    {[originalFileName |-> <<"file", id>>, exifInfo |-> <<"exif", id>>,
      localDateTime |-> <<"ldt", id>>],
     [originalFileName |-> <<"file", id>>],
     [originalFileName |-> <<>>, exifInfo |-> <<>>, localDateTime |-> <<>>],
     EmptyDict}

JSON == "application/json"

ErrorResponses == {Response(st, JSON, EmptyDict) : st \in {401, 404, 500}}

HubTransports(op) ==
    {Fault} \cup ErrorResponses \cup
    CASE op = "authenticate" ->
           {Response(st, JSON, b) :
              st \in {200, 201},
              b \in {[authStatus |-> TRUE], [authStatus |-> FALSE], EmptyDict}}
      [] op = "get_my_user_info" ->
           {Response(200, JSON, [id |-> "u1", name |-> "me"])}
      [] op = "get_asset_info" -> {Response(200, JSON, b) : b \in AssetInfos("x")}
      [] op = "download_asset" ->
           {Response(st, ct, b) :
              st \in {200, 206},
              ct \in {"image/png", "image/jpeg", "image/webp", "text/html"},
              b \in {<<>>, <<"x">>}}
      [] op = "list_favorite_images" ->
           {Response(200, JSON, [assets |-> [items |-> l]]) :
              l \in SeqsUpTo(ListedAssets, MaxAssets)}
      [] op = "search_images" -> {Response(200, JSON, b) : b \in SearchBodies}
      [] op = "list_all_albums" ->
           {Response(200, JSON, l) :
              l \in SeqsUpTo({[id |-> "A", albumName |-> "Album"]}, MaxAssets)}
      [] op = "list_album_images" ->
           {Response(200, JSON, [assets |-> l]) :
              l \in SeqsUpTo(ListedAssets, MaxAssets)}

HubInit ==
    /\ hub_op \in HubOps
    /\ hub_transport \in HubTransports(hub_op)
    /\ hub_outcome = None

Call_authenticate ==
    /\ hub_op = "authenticate" /\ hub_outcome = None
    /\ hub_outcome' = Some(authenticate(hub_transport))
    /\ UNCHANGED <<hub_op, hub_transport, entity_vars>>

Call_get_my_user_info ==
    /\ hub_op = "get_my_user_info" /\ hub_outcome = None
    /\ hub_outcome' = Some(get_my_user_info(hub_transport))
    /\ UNCHANGED <<hub_op, hub_transport, entity_vars>>

Call_get_asset_info ==
    /\ hub_op = "get_asset_info" /\ hub_outcome = None
    /\ hub_outcome' = Some(get_asset_info(hub_transport))
    /\ UNCHANGED <<hub_op, hub_transport, entity_vars>>

Call_download_asset ==
    /\ hub_op = "download_asset" /\ hub_outcome = None
    /\ hub_outcome' = Some(download_asset(hub_transport))
    /\ UNCHANGED <<hub_op, hub_transport, entity_vars>>

Call_list_favorite_images ==
    /\ hub_op = "list_favorite_images" /\ hub_outcome = None
    /\ hub_outcome' = Some(list_favorite_images(hub_transport))
    /\ UNCHANGED <<hub_op, hub_transport, entity_vars>>

Call_search_images ==
    /\ hub_op = "search_images" /\ hub_outcome = None
    /\ hub_outcome' = Some(search_images(hub_transport))
    /\ UNCHANGED <<hub_op, hub_transport, entity_vars>>

Call_list_all_albums ==
    /\ hub_op = "list_all_albums" /\ hub_outcome = None
    /\ hub_outcome' = Some(list_all_albums(hub_transport))
    /\ UNCHANGED <<hub_op, hub_transport, entity_vars>>

Call_list_album_images ==
    /\ hub_op = "list_album_images" /\ hub_outcome = None
    /\ hub_outcome' = Some(list_album_images(hub_transport))
    /\ UNCHANGED <<hub_op, hub_transport, entity_vars>>

HubNext ==
    \/ Call_authenticate
    \/ Call_get_my_user_info
    \/ Call_get_asset_info
    \/ Call_download_asset
    \/ Call_list_favorite_images
    \/ Call_search_images
    \/ Call_list_all_albums
    \/ Call_list_album_images


---------------------------------------------------------------------------
(* image.py: the image entities                                            *)

CallIds == {1, 2}
AssetIds == {"a", "b"}
Kinds == {"favorite", "album", "search"}

\* _ID_LIST_REFRESH_INTERVAL = timedelta(hours=8)
ID_LIST_REFRESH_INTERVAL == 8
\* await asyncio.sleep(1)
RETRY_SLEEP_SECONDS == 1

\* the clock stops at MaxTime and advances HoursPerTick at a time
MaxTime == 12
HoursPerTick == 4
\* persons of the search payload
NumPersons == 2
\* download attempts of one call are counted up to MaxAttempts
MaxAttempts == 3

PersonIds == [i \in 1..NumPersons |-> <<"person", i>>]

\* person_search_payload of async_setup_entry
person_search_payload ==
    [personIds |-> PersonIds, takenAfter |-> "2011-01-01T00:00:00.000Z",
     type |-> "IMAGE"]

\* self._search_payload is set by ImmichImageSearch.__init__ alone; reading
\* it on another entity raises AttributeError
HasSearchPayload(k) == k = "search"

\* truthiness of an Optional list, bytes or str
Truthy(o) == o # None /\ o[1] # <<>>

\* asset_info.get(key) or ""
GetOrEmpty(d, key) == IF key \in DOMAIN d /\ d[key] # <<>> THEN d[key] ELSE Str_empty

\* what the server holds
EntityAssetA == [id |-> "a", type |-> "IMAGE", originalMimeType |-> Str_image_jpeg]
EntityAssetB == [id |-> "b", type |-> "IMAGE", originalMimeType |-> Str_IMAGE_PNG]
EntityAssetV == [id |-> "v", type |-> "VIDEO", originalMimeType |-> Str_video_mp4]
EntityListings ==
    {<<>>, <<EntityAssetA>>, <<EntityAssetV, EntityAssetB>>,
     <<EntityAssetA, EntityAssetB>>}

FailedTransports == {Fault, Response(500, JSON, EmptyDict)}
FavoriteTransports ==
    FailedTransports \cup
    {Response(200, JSON, [assets |-> [items |-> l]]) : l \in EntityListings}
AlbumTransports ==
    FailedTransports \cup {Response(200, JSON, [assets |-> l]) : l \in EntityListings}
SearchTransports ==
    FailedTransports \cup
    {Response(200, JSON, [assets |-> JDict([items |-> JList(l)])]) :
        l \in EntityListings \ {<<EntityAssetA>>}}
InfoTransports(id) ==
    FailedTransports \cup {Response(200, JSON, b) : b \in AssetInfos(id)}

DownloadBehaviours == {"bytes", "none", "unreliable"}
BytesTransports(id) == {Response(200, ct, <<id>>) : ct \in ALLOWED_MIME_TYPES}
NoBytesTransports(id) ==
    {Response(404, JSON, <<>>), Response(200, "image/webp", <<id>>),
     Response(200, "image/jpeg", <<>>)}
DownloadTransports(id) ==
    CASE server_download[id] = "bytes" -> BytesTransports(id)
      [] server_download[id] = "none" -> NoBytesTransports(id)
      [] OTHER -> BytesTransports(id) \cup NoBytesTransports(id) \cup {Fault}

NotRunning == {"idle", "returned", "raised"}

\* the entity after __init__, with cs the calls the host may have in flight
EntityInitWith(cs) ==
    /\ kind \in Kinds
    /\ calls = cs
    /\ now = 0
    /\ server_download \in [AssetIds -> DownloadBehaviours]
    /\ cached_available_asset_ids = None
    /\ available_asset_ids_last_updated = None
    /\ current_image_bytes = None
    /\ attr_extra_state_attributes = EmptyDict
    /\ attr_image_last_updated = None
    /\ pc = [c \in CallIds |-> "idle"]
    /\ asset_id = [c \in CallIds |-> None]
    /\ asset_bytes = [c \in CallIds |-> None]
    /\ asset_info = [c \in CallIds |-> None]
    /\ exc = [c \in CallIds |-> None]
    /\ notified = [c \in CallIds |-> 0]
    /\ before = [c \in CallIds |-> <<None, EmptyDict, None>>]
    /\ attempts = [c \in CallIds |-> 0]
    /\ sleep_seconds = [c \in CallIds |-> 0]
    /\ sub_payloads = [c \in CallIds |-> <<>>]
    /\ sub_results = [c \in CallIds |-> <<>>]
    /\ entry = [c \in CallIds |-> "update"]
    /\ image_result = [c \in CallIds |-> None]

EntityInit == EntityInitWith({1})

\* async_image, after its await: "return self._current_image_bytes" runs in
\* the step in which _load_and_cache_next_image returns
ImageReturn(c) ==
    /\ image_result' = [image_result EXCEPT ![c] =
          IF entry[c] = "image" /\ pc'[c] = "returned"
          THEN Some(current_image_bytes') ELSE @]
    /\ UNCHANGED entry

\* an exception leaves _load_and_cache_next_image and async_update
RaiseOut(c, e) ==
    /\ pc' = [pc EXCEPT ![c] = "raised"]
    /\ exc' = [exc EXCEPT ![c] = Some(e)]

\* Start that clears the displayed bytes before loading
Start_clears_image(c) ==
    /\ c \in calls
    /\ pc[c] \in NotRunning
    /\ pc' = [pc EXCEPT ![c] = "loop"]
    /\ asset_id' = [asset_id EXCEPT ![c] = None]
    /\ asset_bytes' = [asset_bytes EXCEPT ![c] = None]
    /\ asset_info' = [asset_info EXCEPT ![c] = None]
    /\ exc' = [exc EXCEPT ![c] = None]
    /\ notified' = [notified EXCEPT ![c] = 0]
    /\ before' = [before EXCEPT ![c] =
          <<current_image_bytes, attr_extra_state_attributes, attr_image_last_updated>>]
    /\ attempts' = [attempts EXCEPT ![c] = 0]
    /\ sub_payloads' = [sub_payloads EXCEPT ![c] = <<>>]
    /\ sub_results' = [sub_results EXCEPT ![c] = <<>>]
    /\ current_image_bytes' = None
    /\ entry' = [entry EXCEPT ![c] = "update"]
    /\ image_result' = [image_result EXCEPT ![c] = None]
    /\ UNCHANGED <<hub_vars, env_vars, now, cache_vars, attr_extra_state_attributes,
                   attr_image_last_updated, sleep_seconds>>

\* the host calls async_update: _load_and_cache_next_image starts
Start(c) ==
    /\ c \in calls
    /\ pc[c] \in NotRunning
    /\ pc' = [pc EXCEPT ![c] = "loop"]
    /\ asset_id' = [asset_id EXCEPT ![c] = None]
    /\ asset_bytes' = [asset_bytes EXCEPT ![c] = None]
    /\ asset_info' = [asset_info EXCEPT ![c] = None]
    /\ exc' = [exc EXCEPT ![c] = None]
    /\ notified' = [notified EXCEPT ![c] = 0]
    /\ before' = [before EXCEPT ![c] =
          <<current_image_bytes, attr_extra_state_attributes, attr_image_last_updated>>]
    /\ attempts' = [attempts EXCEPT ![c] = 0]
    /\ sub_payloads' = [sub_payloads EXCEPT ![c] = <<>>]
    /\ sub_results' = [sub_results EXCEPT ![c] = <<>>]
    /\ entry' = [entry EXCEPT ![c] = "update"]
    /\ image_result' = [image_result EXCEPT ![c] = None]
    /\ UNCHANGED <<hub_vars, env_vars, now, cache_vars, displayed_vars, sleep_seconds>>

\* AsyncImage that loads whether or not bytes are cached
AsyncImage_always_loads(c) ==
    /\ c \in calls
    /\ pc[c] \in NotRunning
    /\ entry' = [entry EXCEPT ![c] = "image"]
    /\ asset_id' = [asset_id EXCEPT ![c] = None]
    /\ asset_bytes' = [asset_bytes EXCEPT ![c] = None]
    /\ asset_info' = [asset_info EXCEPT ![c] = None]
    /\ exc' = [exc EXCEPT ![c] = None]
    /\ notified' = [notified EXCEPT ![c] = 0]
    /\ before' = [before EXCEPT ![c] =
          <<current_image_bytes, attr_extra_state_attributes, attr_image_last_updated>>]
    /\ attempts' = [attempts EXCEPT ![c] = 0]
    /\ sub_payloads' = [sub_payloads EXCEPT ![c] = <<>>]
    /\ sub_results' = [sub_results EXCEPT ![c] = <<>>]
    /\ pc' = [pc EXCEPT ![c] = "loop"]
    /\ image_result' = [image_result EXCEPT ![c] = None]
    /\ UNCHANGED <<hub_vars, env_vars, now, cache_vars, displayed_vars, sleep_seconds>>

\* the host requests the current image: async_image up to its first
\* suspension, or to its return when bytes are cached
AsyncImage(c) ==
    /\ c \in calls
    /\ pc[c] \in NotRunning
    /\ entry' = [entry EXCEPT ![c] = "image"]
    /\ asset_id' = [asset_id EXCEPT ![c] = None]
    /\ asset_bytes' = [asset_bytes EXCEPT ![c] = None]
    /\ asset_info' = [asset_info EXCEPT ![c] = None]
    /\ exc' = [exc EXCEPT ![c] = None]
    /\ notified' = [notified EXCEPT ![c] = 0]
    /\ before' = [before EXCEPT ![c] =
          <<current_image_bytes, attr_extra_state_attributes, attr_image_last_updated>>]
    /\ attempts' = [attempts EXCEPT ![c] = 0]
    /\ sub_payloads' = [sub_payloads EXCEPT ![c] = <<>>]
    /\ sub_results' = [sub_results EXCEPT ![c] = <<>>]
    /\ IF ~Truthy(current_image_bytes)
       THEN /\ pc' = [pc EXCEPT ![c] = "loop"]
            /\ image_result' = [image_result EXCEPT ![c] = None]
       ELSE /\ pc' = [pc EXCEPT ![c] = "returned"]
            /\ image_result' = [image_result EXCEPT ![c] = Some(current_image_bytes)]
    /\ UNCHANGED <<hub_vars, env_vars, now, cache_vars, displayed_vars, sleep_seconds>>

\* Stale with the comparison off by one: a list exactly 8 hours old refreshed
Stale_at_interval ==
    \/ available_asset_ids_last_updated = None
    \/ now - available_asset_ids_last_updated[1] >= ID_LIST_REFRESH_INTERVAL

\* the condition of _get_next_asset_id under which the list is refreshed
Stale ==
    \/ available_asset_ids_last_updated = None
    \/ now - available_asset_ids_last_updated[1] > ID_LIST_REFRESH_INTERVAL

\* _get_next_asset_id from "if not self._cached_available_asset_ids" on,
\* then the caller's "if not asset_id: return" and the download it issues
Select(c, ids) ==
    IF ~Truthy(ids)
    THEN /\ asset_id' = [asset_id EXCEPT ![c] = None]
         /\ pc' = [pc EXCEPT ![c] = "returned"]
    ELSE \E i \in 1..Len(ids[1]) :
         /\ asset_id' = [asset_id EXCEPT ![c] = Some(ids[1][i])]
         /\ pc' = [pc EXCEPT ![c] = "download"]

\* top of the while loop: _get_next_asset_id up to its first suspension
GetNextAssetId(c) ==
    /\ pc[c] = "loop"
    /\ IF Stale
       THEN /\ pc' = [pc EXCEPT ![c] = "refresh"]
            /\ UNCHANGED asset_id
       ELSE Select(c, cached_available_asset_ids)
    /\ UNCHANGED <<hub_vars, env_vars, now, cache_vars, displayed_vars, asset_bytes,
                   asset_info, exc, notified, before, history_vars, gather_vars>>
    /\ ImageReturn(c)

\* RefreshReturn that stamps the refresh time for a non-empty list alone
RefreshReturn_unstamped_when_empty(c, ids) ==
    /\ cached_available_asset_ids' = Some(ids)
    /\ available_asset_ids_last_updated' =
          IF ids = <<>> THEN available_asset_ids_last_updated ELSE Some(now)
    /\ Select(c, Some(ids))
    /\ UNCHANGED exc

\* _refresh_available_asset_ids returned ids: the cache is replaced and
\* stamped, and _get_next_asset_id goes on to select
RefreshReturn(c, ids) ==
    /\ cached_available_asset_ids' = Some(ids)
    /\ available_asset_ids_last_updated' = Some(now)
    /\ Select(c, Some(ids))
    /\ UNCHANGED exc

RefreshRaise(c, e) ==
    /\ RaiseOut(c, e)
    /\ UNCHANGED <<cache_vars, asset_id>>

RefreshOutcome(c, o) ==
    IF o.kind = "raise" THEN RefreshRaise(c, o.exc)
    ELSE RefreshReturn(c, IdsOf(o.value))

\* ImmichImageFavorite._refresh_available_asset_ids
Refresh_favorite(c) ==
    /\ pc[c] = "refresh"
    /\ kind = "favorite"
    /\ \E t \in FavoriteTransports : RefreshOutcome(c, list_favorite_images(t))
    /\ UNCHANGED <<hub_vars, env_vars, now, displayed_vars, asset_bytes, asset_info,
                   notified, before, history_vars, gather_vars>>
    /\ ImageReturn(c)

\* BaseImmichImage._refresh_available_asset_ids, which ImmichImageAlbum
\* inherits: it reads self._search_payload
Refresh_base(c) ==
    /\ pc[c] = "refresh"
    /\ kind = "album"
    /\ IF ~HasSearchPayload(kind)
       THEN RefreshRaise(c, "AttributeError")
       ELSE \E t \in SearchTransports : RefreshOutcome(c, search_images(t))
    /\ UNCHANGED <<hub_vars, env_vars, now, displayed_vars, asset_bytes, asset_info,
                   notified, before, history_vars, gather_vars>>
    /\ ImageReturn(c)

\* ImmichImageSearch._refresh_available_asset_ids up to asyncio.gather: one
\* sub-search per entry of personIds
Refresh_search(c) ==
    /\ pc[c] = "refresh"
    /\ kind = "search"
    /\ LET base == DictWithout(person_search_payload, "personIds")
           person_ids == person_search_payload.personIds
       IN /\ sub_payloads' = [sub_payloads EXCEPT ![c] =
                [i \in 1..Len(person_ids) |->
                    DictMerge(base, [personIds |-> <<person_ids[i]>>])]]
          /\ sub_results' = [sub_results EXCEPT ![c] =
                [i \in 1..Len(person_ids) |-> None]]
    /\ pc' = [pc EXCEPT ![c] = "gather"]
    /\ UNCHANGED <<hub_vars, env_vars, now, cache_vars, displayed_vars, local_vars,
                   exc, notified, before, history_vars>>
    /\ ImageReturn(c)

\* list(s) of a set s: its elements once each, in any order
ListsOfSet(S) ==
    {f \in [1..Cardinality(S) -> S] : \A i, j \in 1..Cardinality(S) : i # j => f[i] # f[j]}

\* GatheredIds that keeps the last result alone
GatheredIds_last_only(results) ==
    {results[Len(results)][1][k].id : k \in 1..Len(results[Len(results)][1])}

\* all_ids after the update loop over results
GatheredIds(results) ==
    UNION {{results[i][1][k].id : k \in 1..Len(results[i][1])} : i \in 1..Len(results)}

\* SubSearch that caches the IDs gathered so far when a sub-search raises
SubSearch_caches_partial(c, i) ==
    /\ pc[c] = "gather"
    /\ i \in 1..Len(sub_results[c])
    /\ sub_results[c][i] = None
    /\ \E t \in SearchTransports :
         LET o == search_images(t)
             done == SelectSeq(sub_results[c], LAMBDA r : r # None)
         IN IF o.kind = "raise"
            THEN /\ RaiseOut(c, o.exc)
                 /\ \E l \in ListsOfSet(GatheredIds(done)) :
                      cached_available_asset_ids' = Some(l)
                 /\ available_asset_ids_last_updated' = Some(now)
                 /\ UNCHANGED sub_results
            ELSE /\ sub_results' = [sub_results EXCEPT ![c][i] = Some(o.value)]
                 /\ UNCHANGED <<pc, exc, cache_vars>>
    /\ UNCHANGED <<hub_vars, env_vars, now, displayed_vars, local_vars,
                   notified, before, history_vars, sub_payloads>>
    /\ ImageReturn(c)

\* one sub-search completes, in any order; the first exception leaves gather
SubSearch(c, i) ==
    /\ pc[c] = "gather"
    /\ i \in 1..Len(sub_results[c])
    /\ sub_results[c][i] = None
    /\ \E t \in SearchTransports :
         LET o == search_images(t)
         IN IF o.kind = "raise"
            THEN RaiseOut(c, o.exc) /\ UNCHANGED sub_results
            ELSE /\ sub_results' = [sub_results EXCEPT ![c][i] = Some(o.value)]
                 /\ UNCHANGED <<pc, exc>>
    /\ UNCHANGED <<hub_vars, env_vars, now, cache_vars, displayed_vars, local_vars,
                   notified, before, history_vars, sub_payloads>>
    /\ ImageReturn(c)

\* gather returned: the results are united and returned as a list
Gather_done(c) ==
    /\ pc[c] = "gather"
    /\ \A i \in 1..Len(sub_results[c]) : sub_results[c][i] # None
    /\ \E l \in ListsOfSet(GatheredIds(sub_results[c])) : RefreshReturn(c, l)
    /\ UNCHANGED <<hub_vars, env_vars, now, displayed_vars, asset_bytes, asset_info,
                   notified, before, history_vars, gather_vars>>
    /\ ImageReturn(c)

\* Download that selects again at once, without the sleep, after no bytes
Download_retries_at_once(c) ==
    /\ pc[c] = "download"
    /\ \E t \in DownloadTransports(asset_id[c][1]) :
         LET o == download_asset(t)
         IN IF o.kind = "raise"
            THEN RaiseOut(c, o.exc) /\ UNCHANGED <<asset_bytes, sleep_seconds>>
            ELSE /\ asset_bytes' = [asset_bytes EXCEPT ![c] = o.value]
                 /\ pc' = [pc EXCEPT ![c] = IF Truthy(o.value) THEN "info" ELSE "loop"]
                 /\ UNCHANGED <<exc, sleep_seconds>>
    /\ attempts' = [attempts EXCEPT ![c] = IF @ < MaxAttempts THEN @ + 1 ELSE @]
    /\ UNCHANGED <<hub_vars, env_vars, now, cache_vars, displayed_vars, asset_id,
                   asset_info, notified, before, gather_vars>>
    /\ ImageReturn(c)

\* Download that displays the bytes at once, before the metadata is fetched
Download_displays_at_once(c) ==
    /\ pc[c] = "download"
    /\ \E t \in DownloadTransports(asset_id[c][1]) :
         LET o == download_asset(t)
         IN IF o.kind = "raise"
            THEN /\ RaiseOut(c, o.exc)
                 /\ UNCHANGED <<asset_bytes, sleep_seconds, current_image_bytes>>
            ELSE /\ asset_bytes' = [asset_bytes EXCEPT ![c] = o.value]
                 /\ current_image_bytes' =
                       IF Truthy(o.value) THEN o.value ELSE current_image_bytes
                 /\ pc' = [pc EXCEPT ![c] = IF Truthy(o.value) THEN "info" ELSE "sleep"]
                 /\ sleep_seconds' = [sleep_seconds EXCEPT ![c] =
                       IF Truthy(o.value) THEN 0 ELSE RETRY_SLEEP_SECONDS]
                 /\ UNCHANGED exc
    /\ attempts' = [attempts EXCEPT ![c] = IF @ < MaxAttempts THEN @ + 1 ELSE @]
    /\ UNCHANGED <<hub_vars, env_vars, now, cache_vars, attr_extra_state_attributes,
                   attr_image_last_updated, asset_id, asset_info, notified, before,
                   gather_vars>>
    /\ ImageReturn(c)

\* Download that ends the call when the first download gives no bytes
Download_single_attempt(c) ==
    /\ pc[c] = "download"
    /\ \E t \in DownloadTransports(asset_id[c][1]) :
         LET o == download_asset(t)
         IN IF o.kind = "raise"
            THEN RaiseOut(c, o.exc) /\ UNCHANGED <<asset_bytes, sleep_seconds>>
            ELSE /\ asset_bytes' = [asset_bytes EXCEPT ![c] = o.value]
                 /\ pc' = [pc EXCEPT ![c] = IF Truthy(o.value) THEN "info" ELSE "returned"]
                 /\ UNCHANGED <<exc, sleep_seconds>>
    /\ attempts' = [attempts EXCEPT ![c] = IF @ < MaxAttempts THEN @ + 1 ELSE @]
    /\ UNCHANGED <<hub_vars, env_vars, now, cache_vars, displayed_vars, asset_id,
                   asset_info, notified, before, gather_vars>>
    /\ ImageReturn(c)

\* hub.download_asset(asset_id) completes
Download(c) ==
    /\ pc[c] = "download"
    /\ \E t \in DownloadTransports(asset_id[c][1]) :
         LET o == download_asset(t)
         IN IF o.kind = "raise"
            THEN RaiseOut(c, o.exc) /\ UNCHANGED <<asset_bytes, sleep_seconds>>
            ELSE /\ asset_bytes' = [asset_bytes EXCEPT ![c] = o.value]
                 /\ pc' = [pc EXCEPT ![c] = IF Truthy(o.value) THEN "info" ELSE "sleep"]
                 /\ sleep_seconds' = [sleep_seconds EXCEPT ![c] =
                       IF Truthy(o.value) THEN 0 ELSE RETRY_SLEEP_SECONDS]
                 /\ UNCHANGED exc
    /\ attempts' = [attempts EXCEPT ![c] = IF @ < MaxAttempts THEN @ + 1 ELSE @]
    /\ UNCHANGED <<hub_vars, env_vars, now, cache_vars, displayed_vars, asset_id,
                   asset_info, notified, before, gather_vars>>
    /\ ImageReturn(c)

\* Sleep that evicts the ID whose download failed from the cached list
Sleep_evicts_id(c) ==
    /\ pc[c] = "sleep"
    /\ pc' = [pc EXCEPT ![c] = "loop"]
    /\ sleep_seconds' = [sleep_seconds EXCEPT ![c] = 0]
    /\ cached_available_asset_ids' =
          IF cached_available_asset_ids = None THEN None
          ELSE Some(SelectSeq(cached_available_asset_ids[1],
                              LAMBDA x : x # asset_id[c][1]))
    /\ UNCHANGED <<hub_vars, env_vars, now, available_asset_ids_last_updated,
                   displayed_vars, local_vars, exc, notified, before, attempts,
                   gather_vars>>
    /\ ImageReturn(c)

\* Sleep that gives up after the first failed download
Sleep_gives_up(c) ==
    /\ pc[c] = "sleep"
    /\ pc' = [pc EXCEPT ![c] = "returned"]
    /\ sleep_seconds' = [sleep_seconds EXCEPT ![c] = 0]
    /\ UNCHANGED <<hub_vars, env_vars, now, cache_vars, displayed_vars, local_vars,
                   exc, notified, before, attempts, gather_vars>>
    /\ ImageReturn(c)

\* asyncio.sleep(1) completes: continue
Sleep(c) ==
    /\ pc[c] = "sleep"
    /\ pc' = [pc EXCEPT ![c] = "loop"]
    /\ sleep_seconds' = [sleep_seconds EXCEPT ![c] = 0]
    /\ UNCHANGED <<hub_vars, env_vars, now, cache_vars, displayed_vars, local_vars,
                   exc, notified, before, attempts, gather_vars>>
    /\ ImageReturn(c)

\* NewAttributes with media_exif taken from the wrong field
NewAttributes_wrong_field(info) ==
    DictMerge(attr_extra_state_attributes,
              [media_filename |-> GetOrEmpty(info, "originalFileName"),
               media_exif |-> GetOrEmpty(info, "localDateTime"),
               media_localdatetime |-> GetOrEmpty(info, "localDateTime")])

\* the attribute assignments of _load_and_cache_next_image
NewAttributes(info) ==
    DictMerge(attr_extra_state_attributes,
              [media_filename |-> GetOrEmpty(info, "originalFileName"),
               media_exif |-> GetOrEmpty(info, "exifInfo"),
               media_localdatetime |-> GetOrEmpty(info, "localDateTime")])

\* Info that displays the downloaded bytes before the metadata is fetched
Info_swaps_before_fetch(c) ==
    /\ pc[c] = "info"
    /\ \E t \in InfoTransports(asset_id[c][1]) :
         LET o == get_asset_info(t)
         IN IF o.kind = "raise"
            THEN /\ RaiseOut(c, o.exc)
                 /\ current_image_bytes' = asset_bytes[c]
                 /\ UNCHANGED <<attr_extra_state_attributes, attr_image_last_updated,
                                asset_info, notified>>
            ELSE /\ asset_info' = [asset_info EXCEPT ![c] = Some(o.value)]
                 /\ attr_extra_state_attributes' = NewAttributes(o.value)
                 /\ current_image_bytes' = asset_bytes[c]
                 /\ attr_image_last_updated' = Some(now)
                 /\ notified' = [notified EXCEPT ![c] = @ + 1]
                 /\ pc' = [pc EXCEPT ![c] = "returned"]
                 /\ UNCHANGED exc
    /\ UNCHANGED <<hub_vars, env_vars, now, cache_vars, asset_id, asset_bytes,
                   before, history_vars, gather_vars>>
    /\ ImageReturn(c)

\* hub.get_asset_info(asset_id) completes: the displayed image is swapped,
\* the host is notified and the loop ends
Info(c) ==
    /\ pc[c] = "info"
    /\ \E t \in InfoTransports(asset_id[c][1]) :
         LET o == get_asset_info(t)
         IN IF o.kind = "raise"
            THEN /\ RaiseOut(c, o.exc)
                 /\ UNCHANGED <<displayed_vars, asset_info, notified>>
            ELSE /\ asset_info' = [asset_info EXCEPT ![c] = Some(o.value)]
                 /\ attr_extra_state_attributes' = NewAttributes(o.value)
                 /\ current_image_bytes' = asset_bytes[c]
                 /\ attr_image_last_updated' = Some(now)
                 /\ notified' = [notified EXCEPT ![c] = @ + 1]
                 /\ pc' = [pc EXCEPT ![c] = "returned"]
                 /\ UNCHANGED exc
    /\ UNCHANGED <<hub_vars, env_vars, now, cache_vars, asset_id, asset_bytes,
                   before, history_vars, gather_vars>>
    /\ ImageReturn(c)

\* time passes, while every call is suspended or not running: a call at the
\* top of its loop runs on without yielding
Tick ==
    /\ now + HoursPerTick <= MaxTime
    /\ \A c \in CallIds : pc[c] # "loop"
    /\ now' = now + HoursPerTick
    /\ UNCHANGED <<hub_vars, env_vars, cache_vars, displayed_vars, pc, local_vars,
                   exc, notified, before, history_vars, gather_vars, request_vars>>

Next ==
    \/ \E c \in CallIds : Start(c)
    \/ \E c \in CallIds : GetNextAssetId(c)
    \/ \E c \in CallIds : Refresh_favorite(c)
    \/ \E c \in CallIds : Refresh_base(c)
    \/ \E c \in CallIds : Refresh_search(c)
    \/ \E c \in CallIds : \E i \in 1..NumPersons : SubSearch(c, i)
    \/ \E c \in CallIds : Gather_done(c)
    \/ \E c \in CallIds : Download(c)
    \/ \E c \in CallIds : Sleep(c)
    \/ \E c \in CallIds : Info(c)
    \/ Tick

\* the entity polled by the host, one update at a time
Init ==
    /\ EntityInit
    /\ hub_op = "none"
    /\ hub_transport = Fault
    /\ hub_outcome = None

Spec == Init /\ [][Next]_vars

\* a step of call c: the event loop runs every task that can run, the
\* sleep ends and every request is answered or fails
CallStep(c) ==
    \/ GetNextAssetId(c)
    \/ Refresh_favorite(c)
    \/ Refresh_base(c)
    \/ Refresh_search(c)
    \/ \E i \in 1..NumPersons : SubSearch(c, i)
    \/ Gather_done(c)
    \/ Download(c)
    \/ Sleep(c)
    \/ Info(c)

FairSpec == Spec /\ \A c \in CallIds : WF_vars(CallStep(c))

\* random.choice returns id
Choose(c, id) == GetNextAssetId(c) /\ asset_id'[c] = Some(id)

\* the event loop runs call 1, the one call Init lets the host make, and
\* random.choice is fair: an ID that can be chosen again and again is chosen
FairChoiceSpec ==
    /\ Spec
    /\ WF_vars(CallStep(1))
    /\ \A id \in AssetIds : SF_vars(Choose(1, id))

\* the entity polled by the host and asked for its image, one call at a time
NextImage ==
    \/ Next
    \/ \E c \in CallIds : AsyncImage(c)

SpecImage == Init /\ [][NextImage]_vars

\* two calls of the host on the same entity may overlap; the entity lists
\* its IDs in one request
InitOverlap ==
    /\ EntityInitWith(CallIds)
    /\ kind \in {"favorite", "album"}
    /\ server_download = [id \in AssetIds |-> IF id = "a" THEN "bytes" ELSE "unreliable"]
    /\ hub_op = "none"
    /\ hub_transport = Fault
    /\ hub_outcome = None

\* the steps of the calls, interleaved at their suspension points while the
\* clock shows one reading
NextOverlap ==
    \/ \E c \in CallIds : Start(c)
    \/ \E c \in CallIds : GetNextAssetId(c)
    \/ \E c \in CallIds : Refresh_favorite(c)
    \/ \E c \in CallIds : Refresh_base(c)
    \/ \E c \in CallIds : Download(c)
    \/ \E c \in CallIds : Sleep(c)
    \/ \E c \in CallIds : Info(c)

SpecOverlap == InitOverlap /\ [][NextOverlap]_vars

\* the hub called once, no entity running
InitHub ==
    /\ HubInit
    /\ EntityInit
    /\ kind = "favorite"
    /\ server_download = [id \in AssetIds |-> "bytes"]

SpecHub == InitHub /\ [][HubNext]_vars

---------------------------------------------------------------------------
(* Properties *)

\* C1: a _get_next_asset_id call calls _refresh_available_asset_ids if and
\* only if the list was never fetched or now - last refresh > 8 hours; a
\* call that does not refresh leaves the cache alone; and whenever an ID is
\* selected the list it is selected from is at most 8 hours old.
C1_RefreshIffStale ==
    [][\A c \in CallIds :
         /\ (pc[c] = "loop" /\ pc'[c] # "loop") =>
              /\ (pc'[c] = "refresh") <=>
                   (\/ available_asset_ids_last_updated = None
                    \/ now - available_asset_ids_last_updated[1] > ID_LIST_REFRESH_INTERVAL)
              /\ pc'[c] # "refresh" => UNCHANGED cache_vars
         /\ (pc[c] # "download" /\ pc'[c] = "download") =>
              /\ available_asset_ids_last_updated' # None
              /\ now' - available_asset_ids_last_updated'[1] <= ID_LIST_REFRESH_INTERVAL
      ]_vars

\* a list fetched before is found older than 8 hours and is fetched again
C1_Witness ==
    /\ pc[1] = "refresh"
    /\ available_asset_ids_last_updated # None
    /\ now - available_asset_ids_last_updated[1] > ID_LIST_REFRESH_INTERVAL

\* C2: every hub operation during which the transport raises
\* aiohttp.ClientError fails with CannotConnect.
C2_FaultRaisesCannotConnect ==
    (hub_outcome # None /\ hub_transport.fault) =>
        hub_outcome[1] = Raise("CannotConnect")

\* errors list_album_images raises
C3_AlbumErrors == {"CannotConnect", "ApiError", "KeyError"}

\* the ID lists list_album_images(A) yields
C3_AlbumIdLists ==
    {IdsOf(list_album_images(t).value) :
        t \in {u \in AlbumTransports : list_album_images(u).kind = "return"}}

\* C3: the refresh of an album entity lists the album's images through
\* list_album_images and returns exactly their IDs: once a call is past the
\* refresh, either list_album_images raised or the cache holds such a list.
C3_AlbumRefreshListsAlbum ==
    \A c \in CallIds :
        (kind = "album" /\ pc[c] \notin {"idle", "loop", "refresh"}) =>
            \/ pc[c] = "raised" /\ exc[c][1] \in C3_AlbumErrors
            \/ /\ cached_available_asset_ids # None
               /\ cached_available_asset_ids[1] \in C3_AlbumIdLists

\* the MIME type search_images judges an entry by: originalMimeType when
\* present, mimeType otherwise
C9_Judged(a) ==
    IF "originalMimeType" \in DOMAIN a THEN a.originalMimeType
    ELSE IF "mimeType" \in DOMAIN a THEN a.mimeType ELSE <<>>

C9_Fold(ch) == IF ch >= 97 /\ ch <= 122 THEN ch - 32 ELSE ch

C9_SameIgnoringCase(x, y) ==
    /\ Len(x) = Len(y)
    /\ \A i \in 1..Len(x) : C9_Fold(x[i]) = C9_Fold(y[i])

C9_Meets(a) ==
    /\ "type" \in DOMAIN a
    /\ a.type = "IMAGE"
    /\ \E m \in {Str_image_jpeg, Str_image_jpg, Str_image_png, Str_image_webp,
                 Str_image_heic, Str_image_heif} : C9_SameIgnoringCase(C9_Judged(a), m)

\* a recognized shape: a list under items, or a list under assets.items
C9_Recognized(b) ==
    \/ "items" \in DOMAIN b /\ IsList(b.items)
    \/ /\ "assets" \in DOMAIN b /\ IsDict(b.assets)
       /\ "items" \in DOMAIN b.assets.dict /\ IsList(b.assets.dict.items)

C9_ResponseList(b) ==
    IF "items" \in DOMAIN b /\ IsList(b.items) THEN b.items.list
    ELSE b.assets.dict.items.list

\* r holds exactly the entries of l that meet the condition, in order
C9_IsSelection(r, l) ==
    /\ \A i \in 1..Len(r) : C9_Meets(r[i])
    /\ Len(r) = Cardinality({i \in 1..Len(l) : C9_Meets(l[i])})
    /\ \E f \in [1..Len(r) -> 1..Len(l)] :
         /\ \A i \in 1..Len(r) : r[i] = l[f[i]]
         /\ \A i, j \in 1..Len(r) : i < j => f[i] < f[j]

\* C9: for a response of a recognized shape, search_images returns exactly
\* the entries whose type is IMAGE and whose MIME type (originalMimeType
\* when present, mimeType otherwise) is in the allow-list, ignoring case.
C9_SearchFilter ==
    (/\ hub_op = "search_images" /\ hub_outcome # None
     /\ ~hub_transport.fault /\ hub_transport.status = 200
     /\ C9_Recognized(hub_transport.body)) =>
        /\ hub_outcome[1].kind = "return"
        /\ C9_IsSelection(hub_outcome[1].value, C9_ResponseList(hub_transport.body))

\* an upper-case originalMimeType is kept; an entry whose originalMimeType is
\* refused is dropped although its mimeType is in the list
C9_Witness ==
    /\ hub_op = "search_images" /\ hub_outcome # None
    /\ ~hub_transport.fault /\ hub_transport.status = 200
    /\ hub_transport.body =
         [assets |-> JDict([items |-> JList(
            <<[id |-> "x", type |-> "IMAGE", originalMimeType |-> Str_IMAGE_PNG],
              [id |-> "x", type |-> "IMAGE", originalMimeType |-> Str_video_mp4,
               mimeType |-> Str_Image_HEIC]>>)])]
    /\ hub_outcome[1] =
         Return(<<[id |-> "x", type |-> "IMAGE", originalMimeType |-> Str_IMAGE_PNG]>>)

\* C10: of a 200 response, search_images filters the list under items when
\* there is one, else the list under assets.items when assets is an object,
\* and returns the empty list, raising nothing, for every other body.
C10_TolerantExtractor ==
    (/\ hub_op = "search_images" /\ hub_outcome # None
     /\ ~hub_transport.fault /\ hub_transport.status = 200) =>
        LET b == hub_transport.body
        IN hub_outcome[1] =
             IF "items" \in DOMAIN b /\ IsList(b.items)
             THEN Return(SelectSeq(b.items.list, search_keep))
             ELSE IF /\ "assets" \in DOMAIN b /\ IsDict(b.assets)
                     /\ "items" \in DOMAIN b.assets.dict
                     /\ IsList(b.assets.dict.items)
             THEN Return(SelectSeq(b.assets.dict.items.list, search_keep))
             ELSE Return(<<>>)

Running == {"loop", "refresh", "gather", "download", "sleep", "info"}

\* the candidate pool is not empty and the download of each of its IDs
\* returns no bytes
C4_PoolUndownloadable ==
    /\ Truthy(cached_available_asset_ids)
    /\ \A i \in 1..Len(cached_available_asset_ids[1]) :
         server_download[cached_available_asset_ids[1][i]] = "none"

\* C4 as claimed: while every ID of a non-empty pool downloads to no bytes,
\* a running _load_and_cache_next_image call neither returns nor raises.
C4_NeverEnds ==
    [][\A c \in CallIds :
         (pc[c] \in Running /\ C4_PoolUndownloadable /\ C4_PoolUndownloadable') =>
             pc'[c] \in Running
      ]_vars

\* C4, amended: while every ID of a non-empty pool downloads to no bytes, a
\* failed download is followed by a 1-second sleep, the sleep by a new
\* _get_next_asset_id, and that by a new download or, once the list is older
\* than 8 hours, by a refresh; the call never returns, and raises only when
\* such a refresh raises; get_asset_info is not called and nothing of the
\* displayed image is written.
C4_RetriesUntilRefresh ==
    [][\A c \in CallIds :
         (C4_PoolUndownloadable /\ pc[c] # pc'[c]) =>
            /\ pc[c] = "download" =>
                 /\ pc'[c] = "sleep"
                 /\ sleep_seconds'[c] = RETRY_SLEEP_SECONDS
                 /\ ~Truthy(asset_bytes'[c])
            /\ pc[c] = "sleep" => pc'[c] = "loop"
            /\ pc[c] = "loop" =>
                 /\ pc'[c] \in {"download", "refresh"}
                 /\ pc'[c] = "refresh" <=> Stale
            /\ (pc[c] \in Running /\ pc'[c] \notin Running) =>
                 /\ pc[c] \in {"refresh", "gather"}
                 /\ pc'[c] = "raised" \/ ~C4_PoolUndownloadable'
            /\ pc[c] \in Running =>
                 /\ pc'[c] # "info"
                 /\ UNCHANGED <<displayed_vars, asset_info, notified>>
      ]_vars

\* a download of the pool's only ID has failed and the next is under way
C4_Witness ==
    /\ C4_PoolUndownloadable
    /\ pc[1] = "download"
    /\ attempts[1] >= 2
    /\ current_image_bytes = None

\* C5 as claimed: an update cycle that has started ends.
C5_CycleEnds ==
    \A c \in CallIds : (pc[c] = "loop") ~> (pc[c] \in {"returned", "raised"})

\* C5, amended: the retry loop has no bound. A download that returns no
\* bytes surfaces no error and is followed by a sleep and another attempt,
\* however many attempts were made; the cycle ends only by returning after a
\* download that gave bytes, by returning because no ID is available, or by
\* an exception of a client call or of the refresh.
C5_EndsOnlyOnBytesEmptyOrError ==
    [][\A c \in CallIds :
         /\ (pc[c] = "download" /\ pc'[c] # "download" /\ exc'[c] = None) =>
              IF Truthy(asset_bytes'[c]) THEN pc'[c] = "info" ELSE pc'[c] = "sleep"
         /\ (/\ pc[c] = "download" /\ pc'[c] # "download"
             /\ server_download[asset_id[c][1]] = "none") =>
              pc'[c] = "sleep" /\ exc'[c] = None
         /\ (pc[c] = "sleep" /\ pc'[c] # "sleep") => pc'[c] = "loop"
         /\ (pc[c] \in Running /\ pc'[c] = "returned") =>
              \/ pc[c] = "info" /\ Truthy(asset_bytes[c])
              \/ pc[c] \in {"loop", "refresh", "gather"} /\ asset_id'[c] = None
         /\ (pc[c] \in Running /\ pc'[c] = "raised") =>
              /\ pc[c] \in {"refresh", "gather", "download", "info"}
              /\ exc'[c] # None
      ]_vars

\* one call has made as many download attempts as are counted and goes on
C5_Witness ==
    /\ attempts[1] = MaxAttempts
    /\ pc[1] = "sleep"
    /\ exc[1] = None

\* info.get(key) or ""
C6_FieldOrEmpty(info, key) ==
    IF key \in DOMAIN info THEN (IF info[key] = <<>> THEN <<>> ELSE info[key]) ELSE <<>>

\* C6: once get_asset_info has returned I for the selected asset X whose
\* download returned bytes B, the cycle has ended: the displayed bytes are B,
\* the three attributes are I's originalFileName, exifInfo and localDateTime
\* (the empty string when absent or empty), the stamp is set, and the host
\* was notified exactly once.
C6_SuccessfulLoad ==
    \A c \in calls :
        asset_info[c] # None =>
            /\ pc[c] = "returned"
            /\ exc[c] = None
            /\ asset_id[c] # None
            /\ asset_bytes[c] = Some(<<asset_id[c][1]>>)
            /\ current_image_bytes = asset_bytes[c]
            /\ asset_info[c][1] \in AssetInfos(asset_id[c][1])
            /\ DOMAIN attr_extra_state_attributes =
                 {"media_filename", "media_exif", "media_localdatetime"}
            /\ attr_extra_state_attributes.media_filename =
                 C6_FieldOrEmpty(asset_info[c][1], "originalFileName")
            /\ attr_extra_state_attributes.media_exif =
                 C6_FieldOrEmpty(asset_info[c][1], "exifInfo")
            /\ attr_extra_state_attributes.media_localdatetime =
                 C6_FieldOrEmpty(asset_info[c][1], "localDateTime")
            /\ attr_image_last_updated # None
            /\ attr_image_last_updated[1] <= now
            /\ notified[c] = 1

\* the info holds the file name alone: the two other attributes are empty
C6_Witness ==
    /\ pc[1] = "returned"
    /\ asset_info[1] = Some([originalFileName |-> <<"file", "a">>])
    /\ attr_extra_state_attributes =
         [media_filename |-> <<"file", "a">>, media_exif |-> <<>>,
          media_localdatetime |-> <<>>]
    /\ current_image_bytes = Some(<<"a">>)

\* C7: when _get_next_asset_id yields no ID the call returns at once and
\* raises nothing: it is never left downloading, sleeping or fetching
\* metadata without an ID, the step that finds no ID issues no client call
\* and writes nothing, and the displayed bytes, attributes and stamp are
\* those from before the call, with no notification.
C7_NoAssetLeavesImage ==
    /\ [](\A c \in calls :
            /\ pc[c] \in {"download", "sleep", "info"} => asset_id[c] # None
            /\ (pc[c] = "returned" /\ asset_id[c] = None) =>
                 /\ exc[c] = None
                 /\ notified[c] = 0
                 /\ asset_info[c] = None
                 /\ <<current_image_bytes, attr_extra_state_attributes,
                      attr_image_last_updated>> = before[c])
    /\ [][\A c \in calls :
            (pc[c] \in Running /\ asset_id'[c] = None /\ pc'[c] \notin {pc[c], "refresh", "gather", "raised"}) =>
                /\ pc'[c] = "returned"
                /\ UNCHANGED <<displayed_vars, asset_bytes, asset_info, notified, attempts>>
       ]_vars

\* an image is displayed, the list is refreshed to the empty list, and the
\* call returns with the image still displayed
C7_Witness ==
    /\ pc[1] = "returned"
    /\ asset_id[1] = None
    /\ cached_available_asset_ids = Some(<<>>)
    /\ current_image_bytes # None

C8_IdsOfResults(results) ==
    {a.id : a \in UNION {{results[i][1][k] : k \in 1..Len(results[i][1])} :
                           i \in 1..Len(results)}}

\* C8: the search entity issues one sub-search per entry of personIds, each
\* with the other keys of the payload unchanged and personIds holding that
\* one person; all are pending together; and when all have completed, in
\* whatever order, the list returned holds each ID of the sub-search results
\* once and no other ID.
C8_FanOutUnion ==
    \A c \in calls :
        /\ (kind = "search" /\ pc[c] = "gather") =>
             /\ Len(sub_payloads[c]) = Len(person_search_payload.personIds)
             /\ Len(sub_results[c]) = Len(sub_payloads[c])
             /\ \A i \in 1..Len(sub_payloads[c]) :
                  /\ DOMAIN sub_payloads[c][i] = DOMAIN person_search_payload
                  /\ sub_payloads[c][i].personIds =
                       <<person_search_payload.personIds[i]>>
                  /\ sub_payloads[c][i].takenAfter = person_search_payload.takenAfter
                  /\ sub_payloads[c][i].type = person_search_payload.type
        /\ (/\ kind = "search" /\ Len(sub_results[c]) > 0
            /\ pc[c] \in {"download", "sleep", "info", "returned"}) =>
             /\ \A i \in 1..Len(sub_results[c]) : sub_results[c][i] # None
             /\ cached_available_asset_ids # None
             /\ LET l == cached_available_asset_ids[1]
                IN /\ \A i, j \in 1..Len(l) : i # j => l[i] # l[j]
                   /\ {l[i] : i \in 1..Len(l)} = C8_IdsOfResults(sub_results[c])

\* both results hold b and the second holds a as well: the list returned
\* holds b once, in an order that is not that of the results
C8_Witness ==
    /\ kind = "search"
    /\ pc[1] = "download"
    /\ sub_results[1][1] = Some(<<EntityAssetB>>)
    /\ sub_results[1][2] = Some(<<EntityAssetA, EntityAssetB>>)
    /\ cached_available_asset_ids = Some(<<"b", "a">>)

\* the IDs of the candidate pool
C11_Pool ==
    IF cached_available_asset_ids = None THEN {}
    ELSE {cached_available_asset_ids[1][i] : i \in 1..Len(cached_available_asset_ids[1])}

\* C11: while the cache is fresh, _get_next_asset_id changes neither the
\* cached list nor its stamp and returns only members of the list; the
\* cache changes in no step but the one in which a refresh returns; and the
\* ID of a download that gave no bytes is still in the pool when the call
\* sleeps.
C11_CacheChangedOnlyByRefresh ==
    [][\A c \in CallIds :
         /\ (pc[c] = "loop" /\ pc'[c] # "loop" /\ ~Stale) =>
              /\ UNCHANGED cache_vars
              /\ pc'[c] \in {"download", "returned"}
              /\ pc'[c] = "download" =>
                    asset_id'[c] # None /\ asset_id'[c][1] \in C11_Pool
         /\ (pc[c] # "download" /\ pc'[c] = "download") =>
              asset_id'[c] # None /\ asset_id'[c][1] \in C11_Pool'
         /\ (pc[c] = "download" /\ pc'[c] = "sleep") =>
              /\ UNCHANGED <<cache_vars, asset_id>>
              /\ asset_id[c][1] \in C11_Pool'
         /\ (pc[c] = "sleep" /\ pc'[c] # "sleep") => UNCHANGED cache_vars
         /\ (pc[c] \in {"download", "info"} /\ pc'[c] # pc[c]) => UNCHANGED cache_vars
      ]_vars
    /\ [][cache_vars' # cache_vars =>
            \E c \in CallIds :
                /\ pc[c] \in {"refresh", "gather"}
                /\ pc'[c] \in {"download", "returned"}
                /\ available_asset_ids_last_updated' = Some(now)
         ]_vars

\* the download of a gave no bytes and the call sleeps, a still in the pool
\* of two
C11_Witness ==
    /\ pc[1] = "sleep"
    /\ asset_id[1] = Some("a")
    /\ ~Truthy(asset_bytes[1])
    /\ cached_available_asset_ids = Some(<<"a", "b">>)
    /\ attempts[1] >= 2

C12_Successful(t) == t.status >= 200 /\ t.status <= 299

C12_PositiveAuthStatus(t) == "authStatus" \in DOMAIN t.body /\ t.body.authStatus = TRUE

\* C12: authenticate returns false, raising nothing, when the response is
\* non-2xx or lacks a positive authStatus; it returns true only for a
\* successful response with a positive authStatus; and it raises only when
\* the transport fails, and then CannotConnect.
C12_AuthenticateOutcome ==
    (hub_op = "authenticate" /\ hub_outcome # None) =>
        LET t == hub_transport
            o == hub_outcome[1]
        IN /\ (~t.fault /\ (~C12_Successful(t) \/ ~C12_PositiveAuthStatus(t))) =>
                 o.kind = "return" /\ o.value = FALSE
           /\ (o.kind = "return" /\ o.value = TRUE) =>
                 ~t.fault /\ C12_Successful(t) /\ C12_PositiveAuthStatus(t)
           /\ o.kind = "raise" => t.fault /\ o.exc = "CannotConnect"
           /\ t.fault => o.kind = "raise"

\* the endpoint answers 401 and authenticate has returned false
C12_Witness ==
    /\ hub_op = "authenticate"
    /\ ~hub_transport.fault /\ hub_transport.status = 401
    /\ hub_outcome = Some(Return(FALSE))

C13_RawTypes == {"image/png", "image/jpeg"}

\* C13: download_asset returns no bytes, raising nothing, when the response
\* is non-2xx or its content type is neither image/png nor image/jpeg; it
\* returns the body only for a successful response of one of these two
\* types; and it raises only when the transport fails, and then
\* CannotConnect.
C13_DownloadOutcome ==
    (hub_op = "download_asset" /\ hub_outcome # None) =>
        LET t == hub_transport
            o == hub_outcome[1]
        IN /\ (~t.fault /\ (~C12_Successful(t) \/ t.content_type \notin C13_RawTypes)) =>
                 o.kind = "return" /\ o.value = None
           /\ (o.kind = "return" /\ o.value # None) =>
                 /\ ~t.fault /\ C12_Successful(t) /\ t.content_type \in C13_RawTypes
                 /\ o.value = Some(t.body)
           /\ o.kind = "raise" => t.fault /\ o.exc = "CannotConnect"
           /\ t.fault => o.kind = "raise"

\* a 200 response of type image/webp has made download_asset return no bytes
C13_Witness ==
    /\ hub_op = "download_asset"
    /\ ~hub_transport.fault /\ hub_transport.status = 200
    /\ hub_transport.content_type = "image/webp"
    /\ hub_transport.body = <<"x">>
    /\ hub_outcome = Some(Return(None))

\* C14: a refresh that returns the empty list replaces the cache and stamps
\* the time; while the cache is the empty list, a _get_next_asset_id call
\* made at most 8 hours after the stamp returns no ID, calls no refresh and
\* leaves cache and stamp alone, a call made later refreshes, and the empty
\* cache is replaced by a returning refresh alone.
C14_EmptyCacheUntilRefresh ==
    /\ [](cached_available_asset_ids = Some(<<>>) =>
            available_asset_ids_last_updated # None)
    /\ [][\A c \in CallIds :
            /\ (/\ pc[c] \in {"refresh", "gather"}
                /\ pc'[c] \notin {pc[c], "gather", "raised"}
                /\ cached_available_asset_ids' = Some(<<>>)) =>
                 /\ available_asset_ids_last_updated' = Some(now)
                 /\ pc'[c] = "returned"
                 /\ asset_id'[c] = None
            /\ (/\ cached_available_asset_ids = Some(<<>>)
                /\ pc[c] = "loop" /\ pc'[c] # "loop") =>
                 IF now - available_asset_ids_last_updated[1] > ID_LIST_REFRESH_INTERVAL
                 THEN pc'[c] = "refresh"
                 ELSE /\ pc'[c] = "returned"
                      /\ asset_id'[c] = None
                      /\ UNCHANGED cache_vars
       ]_vars
    /\ [][(/\ cached_available_asset_ids = Some(<<>>)
           /\ cached_available_asset_ids' # Some(<<>>)) =>
            \E c \in CallIds :
                /\ pc[c] \in {"refresh", "gather"}
                /\ pc'[c] = "download"
       ]_vars

\* a call is made exactly 8 hours after a refresh that returned the empty
\* list
C14_Witness ==
    /\ pc[1] = "loop"
    /\ cached_available_asset_ids = Some(<<>>)
    /\ available_asset_ids_last_updated = Some(0)
    /\ now = ID_LIST_REFRESH_INTERVAL

\* a sub-search of the call has not returned
C15_Partial(c) == \E i \in 1..Len(sub_results[c]) : sub_results[c][i] = None

\* C15: an error of one sub-search ends the gather and the call with that
\* error, whatever the other sub-searches returned; no list is returned
\* from results that are not all there; the cache and its stamp keep their
\* values; and the list is still due for a refresh, which the next
\* _get_next_asset_id call makes.
C15_SubSearchErrorFailsRefresh ==
    /\ [](\A c \in calls :
            (kind = "search" /\ pc[c] = "raised" /\ C15_Partial(c)) =>
                exc[c] # None /\ Stale)
    /\ [][\A c \in calls :
            /\ (pc[c] = "gather" /\ pc'[c] = "raised") =>
                 /\ exc'[c] # None
                 /\ C15_Partial(c)
                 /\ UNCHANGED <<cache_vars, asset_id, sub_results>>
                 /\ Stale'
            /\ (pc[c] = "gather" /\ pc'[c] \notin {"gather", "raised"}) =>
                 ~C15_Partial(c)
            /\ (kind = "search" /\ pc[c] = "loop" /\ pc'[c] # "loop" /\ Stale) =>
                 /\ pc'[c] = "refresh"
                 /\ UNCHANGED cache_vars
       ]_vars

\* the second sub-search returned two assets, the first raised: the call has
\* raised and the cache is the list fetched 12 hours before
C15_Witness ==
    /\ kind = "search"
    /\ pc[1] = "raised"
    /\ sub_results[1] = <<None, Some(<<EntityAssetA, EntityAssetB>>)>>
    /\ cached_available_asset_ids = Some(<<"b">>)
    /\ available_asset_ids_last_updated = Some(0)
    /\ now = 12

\* the errors the hub raises for a connectivity or an API failure
C16_HubErrors == {"CannotConnect", "ApiError"}

\* C16: when the refresh, download_asset or get_asset_info raises
\* CannotConnect or ApiError during an update cycle, the call ends with that
\* error, and the displayed bytes, the attributes and the stamp are those
\* from before the cycle, the host not notified; the step that raises
\* writes none of them.
C16_ErrorLeavesImage ==
    /\ [](\A c \in calls :
            (pc[c] = "raised" /\ exc[c] # None /\ exc[c][1] \in C16_HubErrors) =>
                /\ <<current_image_bytes, attr_extra_state_attributes,
                     attr_image_last_updated>> = before[c]
                /\ notified[c] = 0
                /\ asset_info[c] = None)
    /\ [][\A c \in calls :
            (pc[c] \in Running /\ pc'[c] = "raised") =>
                /\ pc[c] \in {"refresh", "gather", "download", "info"}
                /\ exc'[c] # None
                /\ UNCHANGED <<displayed_vars, notified>>
       ]_vars

\* b is displayed, the bytes of a were downloaded and get_asset_info raised
\* ApiError: b is still displayed
C16_Witness ==
    /\ pc[1] = "raised"
    /\ exc[1] = Some("ApiError")
    /\ asset_id[1] = Some("a")
    /\ asset_bytes[1] = Some(<<"a">>)
    /\ current_image_bytes = Some(<<"b">>)
    /\ attr_extra_state_attributes.media_filename = <<"file", "b">>

\* the attributes a load of an asset with metadata info writes
C17_AttributesOf(info) ==
    [media_filename |-> C6_FieldOrEmpty(info, "originalFileName"),
     media_exif |-> C6_FieldOrEmpty(info, "exifInfo"),
     media_localdatetime |-> C6_FieldOrEmpty(info, "localDateTime")]

\* C17: with two calls interleaved at their suspension points, in every
\* state either nothing was displayed yet, bytes, attributes and stamp all
\* initial, or the displayed bytes are those of one asset and the three
\* attributes are those of a metadata record of that same asset.
C17_SwapNeverHalfDone ==
    \/ /\ current_image_bytes = None
       /\ attr_extra_state_attributes = EmptyDict
       /\ attr_image_last_updated = None
    \/ /\ attr_image_last_updated # None
       /\ \E id \in AssetIds :
            /\ current_image_bytes = Some(<<id>>)
            /\ \E info \in AssetInfos(id) :
                 attr_extra_state_attributes = C17_AttributesOf(info)

\* two calls started while nothing was displayed; the second has displayed
\* b while the first, holding the bytes of a, awaits the metadata of a
C17_Witness ==
    /\ calls = {1, 2}
    /\ pc[1] = "info" /\ asset_id[1] = Some("a") /\ asset_bytes[1] = Some(<<"a">>)
    /\ pc[2] = "returned" /\ asset_id[2] = Some("b") /\ notified[2] = 1
    /\ before[1] = <<None, EmptyDict, None>>
    /\ before[2] = <<None, EmptyDict, None>>
    /\ current_image_bytes = Some(<<"b">>)
    /\ attr_extra_state_attributes.media_filename = <<"file", "b">>

\* no call raises, and a candidate pool, once there is one, holds an ID
\* whose download returns bytes
C18_Premise ==
    /\ \A c \in CallIds : pc[c] # "raised"
    /\ cached_available_asset_ids # None =>
         \E i \in 1..Len(cached_available_asset_ids[1]) :
             server_download[cached_available_asset_ids[1][i]] = "bytes"

\* the call has ended with the image it downloaded displayed
C18_Displayed(c) ==
    /\ pc[c] = "returned"
    /\ asset_info[c] # None
    /\ Truthy(asset_bytes[c])
    /\ current_image_bytes = asset_bytes[c]

\* C18: if no call raises and the pool holds an ID whose download returns
\* bytes, a cycle under way ends with an image displayed; the bytes
\* displayed are always those of an asset whose download can return bytes;
\* and after a download that gave no bytes the call sleeps for 1 second
\* before it selects again.
C18_EventuallyDisplays ==
    /\ [](current_image_bytes # None =>
            \E id \in AssetIds :
                current_image_bytes = Some(<<id>>) /\ server_download[id] # "none")
    /\ [][\A c \in CallIds :
            /\ (pc[c] = "download" /\ pc'[c] \notin {"download", "raised"}) =>
                 IF Truthy(asset_bytes'[c]) THEN pc'[c] = "info"
                 ELSE pc'[c] = "sleep" /\ sleep_seconds'[c] = RETRY_SLEEP_SECONDS
            /\ (pc[c] = "sleep" /\ pc'[c] # "sleep") =>
                 pc'[c] = "loop" /\ sleep_seconds[c] = RETRY_SLEEP_SECONDS
       ]_vars
    /\ ([]C18_Premise) =>
          \A c \in CallIds : (pc[c] = "loop") ~> C18_Displayed(c)

\* a does not download and b does: after two downloads that gave no bytes
\* the third has displayed b
C18_Witness ==
    /\ server_download = [id \in AssetIds |-> IF id = "a" THEN "none" ELSE "bytes"]
    /\ cached_available_asset_ids = Some(<<"a", "b">>)
    /\ attempts[1] = 3
    /\ C18_Displayed(1)
    /\ asset_id[1] = Some("b")

\* C19: async_image starts a load exactly when no bytes are cached. With
\* bytes cached it returns them in the same step, calling nothing and
\* leaving cache, displayed bytes, attributes and stamp alone. With none
\* cached it has returned nothing before its one load ends, and when that
\* load returns it returns the bytes then displayed: those of the asset
\* loaded, or none when no ID was available.
C19_ImageLoadsOnlyWhenEmpty ==
    /\ [](\A c \in calls :
            (entry[c] = "image" /\ pc[c] \in Running \cup {"raised"}) =>
                image_result[c] = None)
    /\ [][\A c \in calls :
            /\ (pc[c] \in NotRunning /\ entry'[c] = "image" /\ pc'[c] # pc[c]) =>
                 (pc'[c] = "loop" <=> ~Truthy(current_image_bytes))
            /\ (pc[c] \in NotRunning /\ entry'[c] = "image"
                   /\ Truthy(current_image_bytes)) =>
                 /\ pc'[c] = "returned"
                 /\ image_result'[c] = Some(current_image_bytes)
                 /\ UNCHANGED <<cache_vars, displayed_vars>>
            /\ (entry[c] = "image" /\ pc[c] \in Running /\ pc'[c] = "returned") =>
                 /\ image_result'[c] = Some(current_image_bytes')
                 /\ asset_id'[c] = None =>
                       /\ ~Truthy(cached_available_asset_ids')
                       /\ current_image_bytes' = None
                 /\ asset_id'[c] # None =>
                       current_image_bytes' = Some(<<asset_id'[c][1]>>)
       ]_vars

\* an image is displayed and the candidate list fetched: async_image has
\* returned the displayed bytes without selecting or downloading anything
C19_Witness ==
    /\ entry[1] = "image"
    /\ pc[1] = "returned"
    /\ Truthy(current_image_bytes)
    /\ image_result[1] = Some(current_image_bytes)
    /\ asset_id[1] = None
    /\ attempts[1] = 0
    /\ before[1] = <<current_image_bytes, attr_extra_state_attributes,
                     attr_image_last_updated>>

====
